---- MODULE Spec2Model ----
(***************************************************************************)
(* Model of kubizone-common: validated DNS domain segments, fully and      *)
(* partially qualified domain names, the DomainName union, the name        *)
(* algebra, and patterns with their matching.                              *)
(*                                                                         *)
(* A text is a sequence of one-character strings.  A DomainSegment is the  *)
(* sequence of characters it wraps; a FullyQualifiedDomainName and a       *)
(* PartiallyQualifiedDomainName are the Vec<DomainSegment> they wrap; a    *)
(* DomainName is a record [kind, segs] with kind "Full" or "Partial".      *)
(* A PatternSegment is the sequence of characters it wraps and a Pattern   *)
(* the Vec<PatternSegment> it wraps.                                       *)
(* A Result is a record [ok, val, err]; a panic is a record with           *)
(* panic = TRUE.                                                           *)
(***************************************************************************)
EXTENDS Integers, Sequences, FiniteSets, TLC

VARIABLES
    op,      \* name of the operation applied last
    input,   \* the text handed to that operation (<<>> when it takes none)
    ret,     \* what the operation returned
    x,       \* a DomainName value the caller holds
    y,       \* a second DomainName value the caller holds
    pattern, \* a Pattern value the caller holds
    prev     \* the call before the last one: its op and its input

vars == <<op, input, ret, x, y, pattern, prev>>

---------------------------------------------------------------------------
(* Bounds of the model *)

\* Longest text that is enumerated exhaustively over Alphabet.
MaxTextLen == 5

\* Longest name (in segments) built from text for the name algebra.
MaxPoolSegs == 2

\* Longest name (in segments) the name algebra builds.
MaxSegs == 4

\* Longest pattern (in segments) built from text for matching.
MaxPatternSegs == 3

\* Longest name (in segments) built from text for matching.
MaxDomainSegs == 3

\* Longest origin (in segments) built from text for Pattern::with_origin.
MaxOriginSegs == 2

\* Longest single label enumerated exhaustively for segment matching.
MaxMatchLabelLen == 3

---------------------------------------------------------------------------
(* Characters and texts *)

\* The characters texts are drawn from: a letter, its upper case, hyphen,
\* underscore, the wildcard, the origin marker and the separator.
Alphabet == {"a", "A", "-", "_", "*", "@", "."}

\* segment.rs:72, the longest segment accepted.
MaxSegmentLen == 63

Fill(n) == [i \in 1..n |-> "a"]

Edge == {<<>>} \cup {<<c>> : c \in Alphabet}

\* Texts around the length limit: a run of letters with any character, or
\* none, at either end.
LongTexts ==
    {h \o Fill(n) \o t : h \in Edge, t \in Edge,
                         n \in (MaxSegmentLen - 2)..(MaxSegmentLen + 1)}

ShortTexts == UNION {[1..n -> Alphabet] : n \in 0..MaxTextLen}

Texts == ShortTexts \cup LongTexts

\* char::to_ascii_lowercase
to_ascii_lowercase_char(c) ==
    CASE c = "A" -> "a"
      [] c = "B" -> "b"
      [] OTHER   -> c

\* str::to_ascii_lowercase
to_ascii_lowercase(s) == [i \in 1..Len(s) |-> to_ascii_lowercase_char(s[i])]

\* str::contains(char)
contains(s, c) == \E i \in 1..Len(s) : s[i] = c

\* str::starts_with(char), str::ends_with(char)
starts_with_char(s, c) == Len(s) > 0 /\ s[1] = c
ends_with_char(s, c) == Len(s) > 0 /\ s[Len(s)] = c

\* The first of a non-empty set of positions, as Iterator::find meets it
Min(S) == CHOOSE m \in S : \A n \in S : m <= n

---------------------------------------------------------------------------
(* Results *)

Ok(v)  == [ok |-> TRUE,  panic |-> FALSE, val |-> v,    err |-> <<>>]
Err(e) == [ok |-> FALSE, panic |-> FALSE, val |-> <<>>, err |-> e]
Panic(e) == [ok |-> FALSE, panic |-> TRUE, val |-> <<>>, err |-> e]

---------------------------------------------------------------------------
(* segment.rs *)

\* segment.rs:60
VALID_CHARACTERS ==
    {"_", "-", "0", "1", "2", "3", "4", "5", "6", "7", "8", "9",
     "a", "b", "c", "d", "e", "f", "g", "h", "i", "j", "k", "l", "m",
     "n", "o", "p", "q", "r", "s", "t", "u", "v", "w", "x", "y", "z", "*"}

\* DomainSegment_validate with the double hyphen looked for one position
\* early, value.get(1..3)
DomainSegment_validate_hyphen_early(value) ==
    IF Len(value) = 0 THEN Err(<<"EmptyString">>)
    ELSE IF Len(value) > MaxSegmentLen THEN Err(<<"TooLong", Len(value)>>)
    ELSE IF contains(value, "*") /\ Len(value) # 1
        THEN Err(<<"NonStandaloneWildcard">>)
    ELSE IF \E i \in 1..Len(value) : value[i] \notin VALID_CHARACTERS
        THEN Err(<<"InvalidCharacter",
                   value[Min({i \in 1..Len(value) :
                                 value[i] \notin VALID_CHARACTERS})]>>)
    ELSE IF starts_with_char(value, "-") THEN Err(<<"IllegalHyphen", 1>>)
    ELSE IF ends_with_char(value, "-") THEN Err(<<"IllegalHyphen", Len(value)>>)
    ELSE IF Len(value) >= 3 /\ value[2] = "-" /\ value[3] = "-"
        THEN Err(<<"IllegalHyphen", 3>>)
    ELSE Ok(value)

\* segment.rs:65-97, the checks in the order the code makes them
DomainSegment_validate(value) ==
    IF Len(value) = 0 THEN Err(<<"EmptyString">>)
    ELSE IF Len(value) > MaxSegmentLen THEN Err(<<"TooLong", Len(value)>>)
    ELSE IF contains(value, "*") /\ Len(value) # 1
        THEN Err(<<"NonStandaloneWildcard">>)
    ELSE IF \E i \in 1..Len(value) : value[i] \notin VALID_CHARACTERS
        THEN Err(<<"InvalidCharacter",
                   value[Min({i \in 1..Len(value) :
                                 value[i] \notin VALID_CHARACTERS})]>>)
    ELSE IF starts_with_char(value, "-") THEN Err(<<"IllegalHyphen", 1>>)
    ELSE IF ends_with_char(value, "-") THEN Err(<<"IllegalHyphen", Len(value)>>)
    ELSE IF Len(value) >= 4 /\ value[3] = "-" /\ value[4] = "-"
        THEN Err(<<"IllegalHyphen", 3>>)
    ELSE Ok(value)

\* DomainSegment::try_from without the lower-casing of line 66
DomainSegment_try_from_as_given(value) == DomainSegment_validate(value)

\* impl TryFrom<&str> for DomainSegment (segment.rs:65-97)
DomainSegment_try_from(value) ==
    DomainSegment_validate(to_ascii_lowercase(value))

\* impl Display for DomainSegment: writes the wrapped string
DomainSegment_fmt(segment) == segment

\* DomainSegment::len
DomainSegment_len(segment) == Len(segment)

\* DomainSegment::is_wildcard
is_wildcard(segment) == segment = <<"*">>

---------------------------------------------------------------------------
(* Splitting and collecting *)

\* str::trim_end_matches(char): strips every trailing occurrence
RECURSIVE trim_end_matches(_, _)
trim_end_matches(s, c) ==
    IF ends_with_char(s, c)
        THEN trim_end_matches(SubSeq(s, 1, Len(s) - 1), c)
        ELSE s

\* str::split(char): the pieces between the separators; always at least one
RECURSIVE split(_, _)
split(s, c) ==
    IF ~contains(s, c) THEN <<s>>
    ELSE LET i == Min({j \in 1..Len(s) : s[j] = c})
         IN  <<SubSeq(s, 1, i - 1)>> \o split(SubSeq(s, i + 1, Len(s)), c)

\* Result::from_iter(pieces.map(DomainSegment::try_from)): the segments, or
\* the error of the first piece that fails
collect_segments(pieces) ==
    LET rs  == [i \in 1..Len(pieces) |-> DomainSegment_try_from(pieces[i])]
        bad == {i \in 1..Len(pieces) : ~rs[i].ok}
    IN  IF bad # {} THEN Err(rs[Min(bad)].err)
        ELSE Ok([i \in 1..Len(pieces) |-> rs[i].val])

\* non_leading_wildcard without the skip(1)
any_wildcard(segments) ==
    \E i \in 1..Len(segments) : is_wildcard(segments[i])

\* segments.iter().skip(1).any(DomainSegment::is_wildcard)
non_leading_wildcard(segments) ==
    \E i \in 2..Len(segments) : is_wildcard(segments[i])

---------------------------------------------------------------------------
(* fqdn.rs *)

\* FullyQualifiedDomainName::try_from with the segments validated before
\* the trailing separator is looked for
FullyQualifiedDomainName_try_from_segments_first(value) ==
    LET segments == collect_segments(split(trim_end_matches(value, "."), "."))
    IN  IF ~segments.ok THEN Err(<<"SegmentError", segments.err>>)
        ELSE IF ~ends_with_char(value, ".")
            THEN Err(<<"DomainIsPartiallyQualified">>)
        ELSE IF non_leading_wildcard(segments.val)
            THEN Err(<<"NonLeadingWildcard">>)
        ELSE Ok(segments.val)

\* impl TryFrom<&str> for FullyQualifiedDomainName (fqdn.rs:85-102)
FullyQualifiedDomainName_try_from(value) ==
    IF ~ends_with_char(value, ".")
        THEN Err(<<"DomainIsPartiallyQualified">>)
    ELSE LET segments == collect_segments(split(trim_end_matches(value, "."), "."))
         IN  IF ~segments.ok THEN Err(<<"SegmentError", segments.err>>)
             ELSE IF non_leading_wildcard(segments.val)
                 THEN Err(<<"NonLeadingWildcard">>)
             ELSE Ok(segments.val)

\* impl Display for FullyQualifiedDomainName (fqdn.rs:105-114)
RECURSIVE FullyQualifiedDomainName_fmt(_)
FullyQualifiedDomainName_fmt(segments) ==
    IF segments = <<>> THEN <<>>
    ELSE DomainSegment_fmt(Head(segments)) \o <<".">>
             \o FullyQualifiedDomainName_fmt(Tail(segments))

\* segments.iter().map(|segment| segment.len()).sum()
RECURSIVE sum_segment_len(_)
sum_segment_len(segments) ==
    IF segments = <<>> THEN 0
    ELSE DomainSegment_len(Head(segments)) + sum_segment_len(Tail(segments))

\* FullyQualifiedDomainName::len (fqdn.rs:57-59)
FullyQualifiedDomainName_len(segments) ==
    sum_segment_len(segments) + Len(segments)

\* needle is a prefix of slice, element by element
slice_starts_with(slice, needle) ==
    /\ Len(needle) <= Len(slice)
    /\ \A i \in 1..Len(needle) : slice[i] = needle[i]

\* <[T]>::ends_with: needle is a suffix of slice, element by element
slice_ends_with(slice, needle) ==
    /\ Len(needle) <= Len(slice)
    /\ \A i \in 1..Len(needle) :
           slice[Len(slice) - Len(needle) + i] = needle[i]

\* is_subdomain_of as a comparison of the rendered texts, character by
\* character and without the inequality
is_subdomain_of_text(self, parent) ==
    LET text   == FullyQualifiedDomainName_fmt(self)
        suffix == FullyQualifiedDomainName_fmt(parent)
    IN  /\ Len(suffix) <= Len(text)
        /\ SubSeq(text, Len(text) - Len(suffix) + 1, Len(text)) = suffix

\* FullyQualifiedDomainName::is_subdomain_of (fqdn.rs:51-53)
is_subdomain_of(self, parent) ==
    slice_ends_with(self, parent) /\ self # parent

---------------------------------------------------------------------------
(* pqdn.rs *)

\* impl TryFrom<&str> for PartiallyQualifiedDomainName (pqdn.rs:97-110)
PartiallyQualifiedDomainName_try_from(value) ==
    IF ends_with_char(value, ".")
        THEN Err(<<"DomainIsFullyQualified">>)
    ELSE LET segments == collect_segments(split(value, "."))
         IN  IF ~segments.ok THEN Err(<<"SegmentError", segments.err>>)
             ELSE IF non_leading_wildcard(segments.val)
                 THEN Err(<<"NonLeadingWildcard">>)
             ELSE Ok(segments.val)

\* A rendering of a partially qualified name with the separator after
\* every segment, the last one too
PartiallyQualifiedDomainName_fmt_dotted(segments) ==
    FullyQualifiedDomainName_fmt(segments)

\* impl Display for PartiallyQualifiedDomainName (pqdn.rs:113-124)
RECURSIVE PartiallyQualifiedDomainName_fmt(_)
PartiallyQualifiedDomainName_fmt(segments) ==
    IF segments = <<>> THEN <<>>
    ELSE IF Len(segments) = 1 THEN DomainSegment_fmt(Head(segments))
    ELSE DomainSegment_fmt(Head(segments)) \o <<".">>
             \o PartiallyQualifiedDomainName_fmt(Tail(segments))

\* PartiallyQualifiedDomainName::len (pqdn.rs:59-61)
PartiallyQualifiedDomainName_len(segments) ==
    sum_segment_len(segments) + Len(segments)

---------------------------------------------------------------------------
(* dn.rs and lib.rs *)

Full(segments)    == [kind |-> "Full",    segs |-> segments]
Partial(segments) == [kind |-> "Partial", segs |-> segments]

\* impl TryFrom<&str> for DomainName (dn.rs:97-105).  The partial arm
\* unwraps the PartiallyQualifiedDomainName result, which panics on Err.
\* No arm of the match takes NonLeadingWildcard and the declared error type,
\* DomainSegmentError, has no value for it: no typed result comes out.
DomainName_try_from(value) ==
    LET fqdn == FullyQualifiedDomainName_try_from(value)
        pqdn == PartiallyQualifiedDomainName_try_from(value)
    IN  IF fqdn.ok THEN Ok(Full(fqdn.val))
        ELSE IF fqdn.err = <<"DomainIsPartiallyQualified">>
            THEN IF pqdn.ok THEN Ok(Partial(pqdn.val))
                 ELSE Panic(<<"unwrap", pqdn.err>>)
        ELSE IF fqdn.err[1] = "SegmentError" THEN Err(fqdn.err[2])
        ELSE Panic(<<"unmatched", fqdn.err>>)

\* DomainName::from deciding by a separator anywhere in the text
DomainName_from_any_dot(domain) ==
    IF contains(domain, ".")
        THEN [kind |-> "Full", segs |-> domain]
        ELSE [kind |-> "Partial", segs |-> domain]

\* impl From<&str> for DomainName (lib.rs:158-166): the variant wraps the
\* text itself
DomainName_from(domain) ==
    IF ends_with_char(domain, ".")
        THEN [kind |-> "Full", segs |-> domain]
        ELSE [kind |-> "Partial", segs |-> domain]

\* impl Display for DomainName (dn.rs:108-115)
DomainName_fmt(name) ==
    IF name.kind = "Full"
        THEN FullyQualifiedDomainName_fmt(name.segs)
        ELSE PartiallyQualifiedDomainName_fmt(name.segs)

\* DomainName::len (dn.rs:60-65)
DomainName_len(name) ==
    IF name.kind = "Full"
        THEN FullyQualifiedDomainName_len(name.segs)
        ELSE PartiallyQualifiedDomainName_len(name.segs)

\* A view of the segments that only a fully qualified name gives.
DomainName_as_ref_full_only(name) ==
    IF name.kind = "Full" THEN name.segs ELSE <<>>

\* impl AsRef<[DomainSegment]> for DomainName (dn.rs:117-124): the segments
\* of the name of either variant
DomainName_as_ref(name) ==
    IF name.kind = "Full" THEN name.segs ELSE name.segs

---------------------------------------------------------------------------
(* The name algebra: fqdn.rs, pqdn.rs, segment.rs *)

\* Iterator::rev
RECURSIVE rev(_)
rev(s) == IF s = <<>> THEN <<>> ELSE rev(Tail(s)) \o <<Head(s)>>

\* The loop of Sub (fqdn.rs:171-178) over the reversed sequences: own is
\* what own_segments has left, parent what parent_segments has left.
RECURSIVE sub_loop(_, _)
sub_loop(own, parent) ==
    IF parent = <<>> THEN Ok(own)
    ELSE IF own # <<>> /\ Head(own) = Head(parent)
        THEN sub_loop(Tail(own), Tail(parent))
    ELSE Err(<<>>)

\* A subtraction that leaves what it collected in the order of the walk,
\* least specific segment first.
FullyQualifiedDomainName_sub_unreversed(self, rhs) ==
    LET left == sub_loop(rev(self), rev(rhs))
    IN  IF left.ok THEN Ok(left.val) ELSE Err(self)

\* A subtraction that walks both names from the front.
FullyQualifiedDomainName_sub_from_front(self, rhs) ==
    LET left == sub_loop(self, rhs)
    IN  IF left.ok THEN Ok(left.val) ELSE Err(self)

\* impl Sub for &FullyQualifiedDomainName (fqdn.rs:167-181): Err carries self
FullyQualifiedDomainName_sub(self, rhs) ==
    LET left == sub_loop(rev(self), rev(rhs))
    IN  IF left.ok THEN Ok(rev(left.val)) ELSE Err(self)

\* A concatenation that puts the parent's segments first.
PartiallyQualifiedDomainName_add_fqdn_parent_first(self, rhs) == rhs \o self

\* impl Add<&FullyQualifiedDomainName> for &PartiallyQualifiedDomainName
\* (pqdn.rs:129-131)
PartiallyQualifiedDomainName_add_fqdn(self, rhs) == self \o rhs

\* impl Add for &PartiallyQualifiedDomainName (pqdn.rs:137-139)
PartiallyQualifiedDomainName_add(self, rhs) == self \o rhs

\* PartiallyQualifiedDomainName::with_origin (pqdn.rs:48-50)
PartiallyQualifiedDomainName_with_origin(self, origin) ==
    PartiallyQualifiedDomainName_add_fqdn(self, origin)

\* An insertion that puts the segment behind the others.
insert_last(segment, segments) == segments \o <<segment>>

\* rhs.0.insert(0, self) (segment.rs:131-163)
insert_first(segment, segments) == <<segment>> \o segments

\* impl Add<DomainName> for DomainSegment (segment.rs:169-174)
DomainSegment_add(segment, name) ==
    IF name.kind = "Full"
        THEN Full(insert_first(segment, name.segs))
        ELSE Partial(insert_first(segment, name.segs))

---------------------------------------------------------------------------
(* pattern.rs *)

\* pattern.rs:201
Pattern_VALID_CHARACTERS ==
    {"-", "0", "1", "2", "3", "4", "5", "6", "7", "8", "9",
     "a", "b", "c", "d", "e", "f", "g", "h", "i", "j", "k", "l", "m",
     "n", "o", "p", "q", "r", "s", "t", "u", "v", "w", "x", "y", "z",
     "*", "@"}

\* pattern.rs:213, the longest pattern segment accepted.
MaxPatternSegmentLen == 63

\* value.chars().filter(|c| *c == character).count()
count_char(value, character) ==
    Cardinality({i \in 1..Len(value) : value[i] = character})

\* PatternSegment_validate allowing the wildcard only as the whole segment,
\* as DomainSegment does
PatternSegment_validate_standalone_wildcard(value) ==
    IF Len(value) = 0 THEN Err(<<"EmptyString">>)
    ELSE IF Len(value) > MaxPatternSegmentLen THEN Err(<<"TooLong", Len(value)>>)
    ELSE IF \E i \in 1..Len(value) : value[i] \notin Pattern_VALID_CHARACTERS
        THEN Err(<<"InvalidCharacter",
                   value[Min({i \in 1..Len(value) :
                                 value[i] \notin Pattern_VALID_CHARACTERS})]>>)
    ELSE IF starts_with_char(value, "-") THEN Err(<<"IllegalHyphen", 1>>)
    ELSE IF ends_with_char(value, "-") THEN Err(<<"IllegalHyphen", Len(value)>>)
    ELSE IF Len(value) >= 4 /\ value[3] = "-" /\ value[4] = "-"
        THEN Err(<<"IllegalHyphen", 3>>)
    ELSE IF contains(value, "*") /\ Len(value) # 1
        THEN Err(<<"MultipleWildcards">>)
    ELSE IF contains(value, "@") /\ Len(value) # 1
        THEN Err(<<"NonStandaloneOrigin">>)
    ELSE Ok(value)

\* pattern.rs:209-241, the checks in the order the code makes them
PatternSegment_validate(value) ==
    IF Len(value) = 0 THEN Err(<<"EmptyString">>)
    ELSE IF Len(value) > MaxPatternSegmentLen THEN Err(<<"TooLong", Len(value)>>)
    ELSE IF \E i \in 1..Len(value) : value[i] \notin Pattern_VALID_CHARACTERS
        THEN Err(<<"InvalidCharacter",
                   value[Min({i \in 1..Len(value) :
                                 value[i] \notin Pattern_VALID_CHARACTERS})]>>)
    ELSE IF starts_with_char(value, "-") THEN Err(<<"IllegalHyphen", 1>>)
    ELSE IF ends_with_char(value, "-") THEN Err(<<"IllegalHyphen", Len(value)>>)
    ELSE IF Len(value) >= 4 /\ value[3] = "-" /\ value[4] = "-"
        THEN Err(<<"IllegalHyphen", 3>>)
    ELSE IF count_char(value, "*") > 1 THEN Err(<<"MultipleWildcards">>)
    ELSE IF contains(value, "@") /\ Len(value) # 1
        THEN Err(<<"NonStandaloneOrigin">>)
    ELSE Ok(value)

\* impl TryFrom<&str> for PatternSegment (pattern.rs:206-242)
PatternSegment_try_from(value) ==
    PatternSegment_validate(to_ascii_lowercase(value))

\* impl From<DomainSegment> for PatternSegment (pattern.rs:245-249): the
\* segment's string is taken as it is
PatternSegment_from(value) == value

\* impl Display for PatternSegment (pattern.rs:259-263)
PatternSegment_fmt(segment) == segment

\* PatternSegment::is_origin (pattern.rs:161-163)
is_origin(segment) == segment = <<"@">>

\* str::split_once(char): the parts before and after the first occurrence
split_once(s, c) ==
    IF ~contains(s, c) THEN [some |-> FALSE, head |-> <<>>, tail |-> <<>>]
    ELSE LET i == Min({j \in 1..Len(s) : s[j] = c})
         IN  [some |-> TRUE, head |-> SubSeq(s, 1, i - 1),
              tail |-> SubSeq(s, i + 1, Len(s))]

\* str::starts_with(&str), str::ends_with(&str)
starts_with(s, prefix) ==
    Len(prefix) <= Len(s) /\ SubSeq(s, 1, Len(prefix)) = prefix
ends_with(s, suffix) ==
    Len(suffix) <= Len(s) /\ SubSeq(s, Len(s) - Len(suffix) + 1, Len(s)) = suffix

\* PatternSegment::matches with head and tail kept apart in the segment
PatternSegment_matches_no_overlap(self, domain_segment) ==
    IF self = domain_segment THEN TRUE
    ELSE LET parts == split_once(self, "*")
         IN  IF parts.some
                 THEN /\ starts_with(domain_segment, parts.head)
                      /\ ends_with(domain_segment, parts.tail)
                      /\ Len(parts.head) + Len(parts.tail) <= Len(domain_segment)
                 ELSE FALSE

\* PatternSegment::matches (pattern.rs:146-157)
PatternSegment_matches(self, domain_segment) ==
    IF self = domain_segment THEN TRUE
    ELSE LET parts == split_once(self, "*")
         IN  IF parts.some
                 THEN starts_with(domain_segment, parts.head)
                      /\ ends_with(domain_segment, parts.tail)
                 ELSE FALSE

\* Result::from_iter(pieces.map(PatternSegment::try_from)) (pattern.rs:79-84)
collect_pattern_segments(pieces) ==
    LET rs  == [i \in 1..Len(pieces) |-> PatternSegment_try_from(pieces[i])]
        bad == {i \in 1..Len(pieces) : ~rs[i].ok}
    IN  IF bad # {} THEN Err(rs[Min(bad)].err)
        ELSE Ok([i \in 1..Len(pieces) |-> rs[i].val])

\* Pattern::try_from without the trim_end_matches('.')
Pattern_try_from_untrimmed(value) ==
    collect_pattern_segments(split(value, "."))

\* impl TryFrom<&str> for Pattern (pattern.rs:78-86)
Pattern_try_from(value) ==
    collect_pattern_segments(split(trim_end_matches(value, "."), "."))

\* A rendering of a pattern with the separator between the segments only
Pattern_fmt_joined(segments) == PartiallyQualifiedDomainName_fmt(segments)

\* impl Display for Pattern (pattern.rs:97-106)
RECURSIVE Pattern_fmt(_)
Pattern_fmt(segments) ==
    IF segments = <<>> THEN <<>>
    ELSE PatternSegment_fmt(Head(segments)) \o <<".">>
             \o Pattern_fmt(Tail(segments))

\* Pattern::with_origin (pattern.rs:22-33)
Pattern_with_origin(self, origin) ==
    IF self # <<>> /\ is_origin(self[Len(self)])
        THEN SubSeq(self, 1, Len(self) - 1)
                 \o [i \in 1..Len(origin) |-> PatternSegment_from(origin[i])]
        ELSE self

\* A loop that takes the standalone wildcard for one segment and goes on to
\* the more specific pairs.
RECURSIVE matches_loop_every_pair(_, _)
matches_loop_every_pair(pattern_segments, domain_segments) ==
    IF pattern_segments = <<>> \/ domain_segments = <<>> THEN TRUE
    ELSE IF ~PatternSegment_matches(Head(pattern_segments), Head(domain_segments))
        THEN FALSE
    ELSE matches_loop_every_pair(Tail(pattern_segments), Tail(domain_segments))

\* The loop of Pattern::matches (pattern.rs:53-65) over the reversed and
\* zipped sequences
RECURSIVE matches_loop(_, _)
matches_loop(pattern_segments, domain_segments) ==
    IF pattern_segments = <<>> \/ domain_segments = <<>> THEN TRUE
    ELSE IF Head(pattern_segments) = <<"*">> THEN TRUE
    ELSE IF ~PatternSegment_matches(Head(pattern_segments), Head(domain_segments))
        THEN FALSE
    ELSE matches_loop(Tail(pattern_segments), Tail(domain_segments))

\* Pattern::matches without the two comparisons of the lengths
Pattern_matches_loop_only(self, domain) ==
    matches_loop(rev(self), rev(DomainName_as_ref(domain)))

\* Pattern::matches without the exemption of the leading wildcard: a longer
\* domain never matches
Pattern_matches_equal_length(self, domain) ==
    LET domain_segments  == rev(DomainName_as_ref(domain))
        pattern_segments == rev(self)
    IN  IF Len(domain_segments) < Len(pattern_segments) THEN FALSE
        ELSE IF Len(domain_segments) > Len(pattern_segments) THEN FALSE
        ELSE matches_loop(pattern_segments, domain_segments)

\* Pattern::matches (pattern.rs:36-66)
Pattern_matches(self, domain) ==
    LET domain_segments  == rev(DomainName_as_ref(domain))
        pattern_segments == rev(self)
    IN  IF Len(domain_segments) < Len(pattern_segments) THEN FALSE
        ELSE IF /\ Len(domain_segments) > Len(pattern_segments)
                /\ ~(self # <<>> /\ self[1] = <<"*">>)
            THEN FALSE
        ELSE matches_loop(pattern_segments, domain_segments)

---------------------------------------------------------------------------
(* Construction from text: the state machine of Spec *)

\* DomainName::default() (dn.rs:68-72)
DomainName_default == Partial(<<>>)

\* FullyQualifiedDomainName::default() (fqdn.rs:41, derived)
FullyQualifiedDomainName_default == <<>>

\* The caller holds a text and no result yet.
Init ==
    /\ op = "init"
    /\ input \in Texts
    /\ ret = Ok(<<>>)
    /\ x = DomainName_default
    /\ y = DomainName_default
    /\ pattern = <<>>
    /\ prev = [op |-> "none", input |-> <<>>]

SegmentTryFrom ==
    /\ op = "init"
    /\ op' = "DomainSegment::try_from"
    /\ ret' = DomainSegment_try_from(input)
    /\ prev' = [op |-> op, input |-> input]
    /\ UNCHANGED <<input, x, y, pattern>>

FqdnTryFrom ==
    /\ op = "init"
    /\ op' = "FullyQualifiedDomainName::try_from"
    /\ ret' = FullyQualifiedDomainName_try_from(input)
    /\ prev' = [op |-> op, input |-> input]
    /\ UNCHANGED <<input, x, y, pattern>>

PqdnTryFrom ==
    /\ op = "init"
    /\ op' = "PartiallyQualifiedDomainName::try_from"
    /\ ret' = PartiallyQualifiedDomainName_try_from(input)
    /\ prev' = [op |-> op, input |-> input]
    /\ UNCHANGED <<input, x, y, pattern>>

DomainNameTryFrom ==
    /\ op = "init"
    /\ op' = "DomainName::try_from"
    /\ ret' = DomainName_try_from(input)
    /\ prev' = [op |-> op, input |-> input]
    /\ UNCHANGED <<input, x, y, pattern>>

DomainNameFrom ==
    /\ op = "init"
    /\ op' = "DomainName::from"
    /\ ret' = Ok(DomainName_from(input))
    /\ prev' = [op |-> op, input |-> input]
    /\ UNCHANGED <<input, x, y, pattern>>

PatternSegmentTryFrom ==
    /\ op = "init"
    /\ op' = "PatternSegment::try_from"
    /\ ret' = PatternSegment_try_from(input)
    /\ prev' = [op |-> op, input |-> input]
    /\ UNCHANGED <<input, x, y, pattern>>

\* pattern = Pattern::try_from(input), kept when it is Ok
PatternTryFrom ==
    /\ op = "init"
    /\ op' = "Pattern::try_from"
    /\ ret' = Pattern_try_from(input)
    /\ pattern' = IF ret'.ok THEN ret'.val ELSE pattern
    /\ prev' = [op |-> op, input |-> input]
    /\ UNCHANGED <<input, x, y>>

Next ==
    \/ SegmentTryFrom
    \/ FqdnTryFrom
    \/ PqdnTryFrom
    \/ DomainNameTryFrom
    \/ DomainNameFrom
    \/ PatternSegmentTryFrom
    \/ PatternTryFrom

Spec == Init /\ [][Next]_vars

---------------------------------------------------------------------------
(* The name algebra: the state machine of SpecAlgebra *)

\* Labels the names of the algebra are written with.
NameLabels == {<<"a">>, <<"a", "a">>, <<"*">>}

RECURSIVE join(_)
join(labels) ==
    IF Len(labels) = 1 THEN labels[1]
    ELSE labels[1] \o <<".">> \o join(Tail(labels))

\* The texts the caller builds names from: labels joined by the separator,
\* with and without the trailing one.
NameTexts ==
    LET joined == {join(ls) : ls \in UNION {[1..n -> NameLabels] : n \in 1..MaxPoolSegs}}
    IN  joined \cup {t \o <<".">> : t \in joined}

\* The values the constructors give for those texts, and the defaults.
SegmentPool ==
    {DomainSegment_try_from(l).val :
        l \in {l \in NameLabels : DomainSegment_try_from(l).ok}}

FqdnPool ==
    {FullyQualifiedDomainName_try_from(t).val :
        t \in {t \in NameTexts : FullyQualifiedDomainName_try_from(t).ok}}
    \cup {FullyQualifiedDomainName_default}

PqdnPool ==
    {PartiallyQualifiedDomainName_try_from(t).val :
        t \in {t \in NameTexts : PartiallyQualifiedDomainName_try_from(t).ok}}
    \cup {DomainName_default.segs}

NamePool == {Full(f) : f \in FqdnPool} \cup {Partial(p) : p \in PqdnPool}

\* The caller holds two names built from text.
InitAlgebra ==
    /\ op = "init"
    /\ input = <<>>
    /\ ret = Ok(<<>>)
    /\ x \in NamePool
    /\ y \in NamePool
    /\ pattern = <<>>
    /\ prev = [op |-> "none", input |-> <<>>]

\* x = &x + &y for two partially qualified names
AddPqdn ==
    /\ x.kind = "Partial" /\ y.kind = "Partial"
    /\ Len(x.segs) + Len(y.segs) <= MaxSegs
    /\ op' = "PartiallyQualifiedDomainName::add"
    /\ input' = <<x, y>>
    /\ x' = Partial(PartiallyQualifiedDomainName_add(x.segs, y.segs))
    /\ ret' = Ok(x')
    /\ prev' = [op |-> op, input |-> input]
    /\ UNCHANGED <<y, pattern>>

\* x = &x + &y for a partially and a fully qualified name
AddFqdn ==
    /\ x.kind = "Partial" /\ y.kind = "Full"
    /\ Len(x.segs) + Len(y.segs) <= MaxSegs
    /\ op' = "PartiallyQualifiedDomainName::add_fqdn"
    /\ input' = <<x, y>>
    /\ x' = Full(PartiallyQualifiedDomainName_add_fqdn(x.segs, y.segs))
    /\ ret' = Ok(x')
    /\ prev' = [op |-> op, input |-> input]
    /\ UNCHANGED <<y, pattern>>

\* x = x.with_origin(&y)
WithOrigin ==
    /\ x.kind = "Partial" /\ y.kind = "Full"
    /\ Len(x.segs) + Len(y.segs) <= MaxSegs
    /\ op' = "PartiallyQualifiedDomainName::with_origin"
    /\ input' = <<x, y>>
    /\ x' = Full(PartiallyQualifiedDomainName_with_origin(x.segs, y.segs))
    /\ ret' = Ok(x')
    /\ prev' = [op |-> op, input |-> input]
    /\ UNCHANGED <<y, pattern>>

\* x = segment + x
AddSegment(segment) ==
    /\ Len(x.segs) + 1 <= MaxSegs
    /\ op' = "DomainSegment::add"
    /\ input' = <<segment, x>>
    /\ x' = DomainSegment_add(segment, x)
    /\ ret' = Ok(x')
    /\ prev' = [op |-> op, input |-> input]
    /\ UNCHANGED <<y, pattern>>

\* x - y for two fully qualified names; the caller keeps the difference
SubFqdn ==
    /\ x.kind = "Full" /\ y.kind = "Full"
    /\ op' = "FullyQualifiedDomainName::sub"
    /\ input' = <<x, y>>
    /\ LET r == FullyQualifiedDomainName_sub(x.segs, y.segs)
       IN  /\ ret' = IF r.ok THEN Ok(Partial(r.val)) ELSE Err(Full(r.err))
           /\ x' = IF r.ok THEN Partial(r.val) ELSE x
    /\ prev' = [op |-> op, input |-> input]
    /\ UNCHANGED <<y, pattern>>

\* x.is_subdomain_of(&y)
IsSubdomainOf ==
    /\ x.kind = "Full" /\ y.kind = "Full"
    /\ op' = "FullyQualifiedDomainName::is_subdomain_of"
    /\ input' = <<x, y>>
    /\ ret' = Ok(is_subdomain_of(x.segs, y.segs))
    /\ prev' = [op |-> op, input |-> input]
    /\ UNCHANGED <<x, y, pattern>>

\* x.len()
NameLen ==
    /\ op' = "DomainName::len"
    /\ input' = <<x>>
    /\ ret' = Ok(DomainName_len(x))
    /\ prev' = [op |-> op, input |-> input]
    /\ UNCHANGED <<x, y, pattern>>

NextAlgebra ==
    \/ AddPqdn
    \/ AddFqdn
    \/ WithOrigin
    \/ \E segment \in SegmentPool : AddSegment(segment)
    \/ SubFqdn
    \/ IsSubdomainOf
    \/ NameLen

SpecAlgebra == InitAlgebra /\ [][NextAlgebra]_vars

---------------------------------------------------------------------------
(* Matching: the state machine of SpecPattern *)

\* Labels the patterns, the names and the origins are written with.
PatternLabels == {<<"a">>, <<"b">>, <<"*">>, <<"@">>, <<"a", "*">>}
DomainLabels == {<<"a">>, <<"b">>, <<"*">>}
OriginLabels == {<<"a">>, <<"_">>}

\* Labels joined by the separator, with and without the trailing one.
JoinedTexts(labels, n) ==
    LET joined == {join(ls) : ls \in UNION {[1..k -> labels] : k \in 1..n}}
    IN  joined \cup {t \o <<".">> : t \in joined}

\* Every single label over two letters, the wildcard and the origin marker.
MatchLabelTexts ==
    UNION {[1..n -> {"a", "b", "*", "@"}] : n \in 1..MaxMatchLabelLen}

\* The values the constructors give for those texts.
PatternPool ==
    {Pattern_try_from(t).val :
        t \in {t \in JoinedTexts(PatternLabels, MaxPatternSegs) \cup MatchLabelTexts :
                  Pattern_try_from(t).ok}}

DomainPool ==
    LET texts == JoinedTexts(DomainLabels, MaxDomainSegs) \cup MatchLabelTexts
    IN  {Full(FullyQualifiedDomainName_try_from(t).val) :
            t \in {t \in texts : FullyQualifiedDomainName_try_from(t).ok}}
        \cup {Partial(PartiallyQualifiedDomainName_try_from(t).val) :
            t \in {t \in texts : PartiallyQualifiedDomainName_try_from(t).ok}}

OriginPool ==
    {FullyQualifiedDomainName_try_from(t).val :
        t \in {t \in JoinedTexts(OriginLabels, MaxOriginSegs) :
                  FullyQualifiedDomainName_try_from(t).ok}}
    \cup {FullyQualifiedDomainName_default}

\* The caller holds a pattern and a name built from text.
InitPattern ==
    /\ op = "init"
    /\ input = <<>>
    /\ ret = Ok(<<>>)
    /\ x \in DomainPool
    /\ y = DomainName_default
    /\ pattern \in PatternPool
    /\ prev = [op |-> "none", input |-> <<>>]

\* pattern.matches(&x), for the pattern as parsed or as resolved
PatternMatches ==
    /\ op \in {"init", "Pattern::with_origin"}
    /\ op' = "Pattern::matches"
    /\ input' = <<pattern, x>>
    /\ ret' = Ok(Pattern_matches(pattern, x))
    /\ prev' = [op |-> op, input |-> input]
    /\ UNCHANGED <<x, y, pattern>>

\* pattern[i].matches(&x[j]) for one segment of each
PatternSegmentMatches ==
    /\ op = "init"
    /\ op' = "PatternSegment::matches"
    /\ \E i \in 1..Len(pattern), j \in 1..Len(x.segs) :
           /\ input' = <<pattern[i], x.segs[j]>>
           /\ ret' = Ok(PatternSegment_matches(pattern[i], x.segs[j]))
    /\ prev' = [op |-> op, input |-> input]
    /\ UNCHANGED <<x, y, pattern>>

\* pattern = pattern.with_origin(&origin)
PatternWithOrigin(origin) ==
    /\ op = "init"
    /\ op' = "Pattern::with_origin"
    /\ input' = <<pattern, origin>>
    /\ pattern' = Pattern_with_origin(pattern, origin)
    /\ ret' = Ok(pattern')
    /\ prev' = [op |-> op, input |-> input]
    /\ UNCHANGED <<x, y>>

NextPattern ==
    \/ PatternMatches
    \/ PatternSegmentMatches
    \/ \E origin \in OriginPool : PatternWithOrigin(origin)

SpecPattern == InitPattern /\ [][NextPattern]_vars

---------------------------------------------------------------------------
(* Claims about DomainSegment construction, checked under Spec *)

\* Every character of the label, lower-cased, is one of VALID_CHARACTERS.
AllowedCharsOnly(label) ==
    \A i \in 1..Len(label) : to_ascii_lowercase_char(label[i]) \in VALID_CHARACTERS

HyphensAt3And4(label) == Len(label) >= 4 /\ label[3] = "-" /\ label[4] = "-"

\* A label of 1 to 63 allowed characters with no leading or trailing hyphen
\* and no hyphens at both positions 3 and 4.
WellFormedLabel(label) ==
    /\ Len(label) >= 1 /\ Len(label) <= MaxSegmentLen
    /\ AllowedCharsOnly(label)
    /\ label[1] # "-" /\ label[Len(label)] # "-"
    /\ ~HyphensAt3And4(label)

\* The wildcard is mixed with other characters.
MixedWildcard(label) == contains(label, "*") /\ Len(label) # 1

\* C1 as stated: for every well-formed label, DomainSegment construction
\* succeeds and the segment renders as the lower-cased label.
C1_Original ==
    (op = "DomainSegment::try_from" /\ WellFormedLabel(input))
        => (ret.ok /\ DomainSegment_fmt(ret.val) = to_ascii_lowercase(input))

\* C1 amended: for every well-formed label in which '*' occurs only as the
\* whole label, DomainSegment construction succeeds and the segment renders
\* as the lower-cased label.
C1_WellFormedAccepted ==
    (op = "DomainSegment::try_from" /\ WellFormedLabel(input)
        /\ ~MixedWildcard(input))
        => (ret.ok /\ DomainSegment_fmt(ret.val) = to_ascii_lowercase(input))

\* A well-formed label with an upper-case letter and an inner hyphen was
\* accepted.
C1_Witness ==
    /\ op = "DomainSegment::try_from"
    /\ WellFormedLabel(input) /\ ~MixedWildcard(input)
    /\ contains(input, "A") /\ contains(input, "-")
    /\ ret.ok

\* C2 as stated: the empty label gives EmptyString, a leading hyphen
\* IllegalHyphen(1), a trailing hyphen IllegalHyphen(n), hyphens at 3 and 4
\* IllegalHyphen(3), more than 63 characters TooLong(n), and a '.' anywhere
\* InvalidCharacter('.').
C2_Original ==
    op = "DomainSegment::try_from" =>
        /\ input = <<>> => ret.err = <<"EmptyString">>
        /\ starts_with_char(input, "-") => ret.err = <<"IllegalHyphen", 1>>
        /\ ends_with_char(input, "-") => ret.err = <<"IllegalHyphen", Len(input)>>
        /\ HyphensAt3And4(input) => ret.err = <<"IllegalHyphen", 3>>
        /\ Len(input) > MaxSegmentLen => ret.err = <<"TooLong", Len(input)>>
        /\ contains(input, ".") => ret.err = <<"InvalidCharacter", ".">>

\* The first character of the label that is not allowed is c.
FirstDisallowedIs(label, c) ==
    \E i \in 1..Len(label) :
        /\ label[i] = c
        /\ to_ascii_lowercase_char(c) \notin VALID_CHARACTERS
        /\ \A j \in 1..(i - 1) :
               to_ascii_lowercase_char(label[j]) \in VALID_CHARACTERS

\* C2 amended: each of these labels is rejected, and the error is the one
\* listed whenever none of the checks the code makes earlier fails too
\* (empty, longer than 63, '*' mixed with other characters, first character
\* outside the allowed set, leading hyphen, trailing hyphen, hyphens at 3
\* and 4, in that order).
C2_RejectedInOrder ==
    op = "DomainSegment::try_from" =>
        LET n == Len(input)
            sized == n >= 1 /\ n <= MaxSegmentLen /\ ~MixedWildcard(input)
            clean == sized /\ AllowedCharsOnly(input)
        IN  /\ (\/ input = <<>>
                \/ starts_with_char(input, "-")
                \/ ends_with_char(input, "-")
                \/ HyphensAt3And4(input)
                \/ n > MaxSegmentLen
                \/ contains(input, ".")) => (~ret.ok /\ ~ret.panic)
            /\ input = <<>> => ret.err = <<"EmptyString">>
            /\ n > MaxSegmentLen => ret.err = <<"TooLong", n>>
            /\ (sized /\ FirstDisallowedIs(input, "."))
                   => ret.err = <<"InvalidCharacter", ".">>
            /\ (clean /\ starts_with_char(input, "-"))
                   => ret.err = <<"IllegalHyphen", 1>>
            /\ (clean /\ ~starts_with_char(input, "-") /\ ends_with_char(input, "-"))
                   => ret.err = <<"IllegalHyphen", n>>
            /\ (clean /\ ~starts_with_char(input, "-") /\ ~ends_with_char(input, "-")
                      /\ HyphensAt3And4(input))
                   => ret.err = <<"IllegalHyphen", 3>>

\* A label whose only defect is the pair of hyphens at positions 3 and 4
\* was rejected.
C2_Witness ==
    /\ op = "DomainSegment::try_from"
    /\ HyphensAt3And4(input)
    /\ ~starts_with_char(input, "-") /\ ~ends_with_char(input, "-")
    /\ ret.err = <<"IllegalHyphen", 3>>

\* The first failing check of a lower-cased label in the order empty,
\* length, character set, leading hyphen, trailing hyphen, hyphens at 3 and
\* 4, and last the wildcard mixed with other characters.
FirstFailureWildcardLast(value) ==
    IF Len(value) = 0 THEN Err(<<"EmptyString">>)
    ELSE IF Len(value) > MaxSegmentLen THEN Err(<<"TooLong", Len(value)>>)
    ELSE IF ~AllowedCharsOnly(value)
        THEN Err(<<"InvalidCharacter",
                   value[Min({i \in 1..Len(value) :
                                 value[i] \notin VALID_CHARACTERS})]>>)
    ELSE IF value[1] = "-" THEN Err(<<"IllegalHyphen", 1>>)
    ELSE IF value[Len(value)] = "-" THEN Err(<<"IllegalHyphen", Len(value)>>)
    ELSE IF HyphensAt3And4(value) THEN Err(<<"IllegalHyphen", 3>>)
    ELSE IF MixedWildcard(value) THEN Err(<<"NonStandaloneWildcard">>)
    ELSE Ok(value)

\* C24: DomainSegment construction reports the first failing check in the
\* order empty, length, character set, leading hyphen, trailing hyphen,
\* hyphens at 3 and 4, mixed wildcard; so a label with a mixed wildcard and
\* an invalid character or an illegal hyphen gives InvalidCharacter or
\* IllegalHyphen.
C24_Original ==
    op = "DomainSegment::try_from" =>
        ret = FirstFailureWildcardLast(to_ascii_lowercase(input))

---------------------------------------------------------------------------
(* Claims about name construction, checked under Spec *)

\* C3: FullyQualifiedDomainName construction fails with
\* DomainIsPartiallyQualified exactly for the texts without a trailing '.',
\* PartiallyQualifiedDomainName construction fails with
\* DomainIsFullyQualified exactly for the texts with one, whatever the
\* segments are; so exactly one of the two constructors rejects a text with
\* its qualification error.
C3_QualificationFirst ==
    LET dotted == Len(input) > 0 /\ input[Len(input)] = "."
    IN  /\ op = "FullyQualifiedDomainName::try_from"
            => (ret.err = <<"DomainIsPartiallyQualified">> <=> ~dotted)
        /\ op = "PartiallyQualifiedDomainName::try_from"
            => (ret.err = <<"DomainIsFullyQualified">> <=> dotted)
        /\ op \in {"FullyQualifiedDomainName::try_from",
                   "PartiallyQualifiedDomainName::try_from"}
            => ((FullyQualifiedDomainName_try_from(input).err
                     = <<"DomainIsPartiallyQualified">>)
                # (PartiallyQualifiedDomainName_try_from(input).err
                     = <<"DomainIsFullyQualified">>))

\* A text without a trailing '.' and with a segment that is not valid was
\* rejected by FullyQualifiedDomainName construction for its qualification.
C3_Witness ==
    /\ op = "FullyQualifiedDomainName::try_from"
    /\ Len(input) > 1
    /\ \E i \in 1..Len(split(input, ".")) :
           ~DomainSegment_try_from(split(input, ".")[i]).ok
    /\ ret.err = <<"DomainIsPartiallyQualified">>

\* The pieces the constructor named by op validates as segments: for a fully
\* qualified name the text without its trailing separators, cut at '.'.
PiecesOf(text) ==
    IF op = "FullyQualifiedDomainName::try_from"
        THEN split(trim_end_matches(text, "."), ".")
        ELSE split(text, ".")

\* The text has the qualification the constructor named by op asks for.
RightlyQualified(text) ==
    IF op = "FullyQualifiedDomainName::try_from"
        THEN ends_with_char(text, ".")
        ELSE ~ends_with_char(text, ".")

AllPiecesValid(pieces) ==
    \A i \in 1..Len(pieces) : DomainSegment_try_from(pieces[i]).ok

\* C4: constructing a fully or a partially qualified name from a text of the
\* right qualification whose segments are all valid fails with
\* NonLeadingWildcard if and only if a segment other than the first is '*',
\* and succeeds otherwise: a wildcard as the first segment is accepted.
C4_NonLeadingWildcard ==
    (/\ op \in {"FullyQualifiedDomainName::try_from",
                "PartiallyQualifiedDomainName::try_from"}
     /\ RightlyQualified(input)
     /\ AllPiecesValid(PiecesOf(input)))
        => LET pieces == PiecesOf(input)
               inner  == \E i \in 2..Len(pieces) : pieces[i] = <<"*">>
           IN  /\ ret.err = <<"NonLeadingWildcard">> <=> inner
               /\ ret.ok <=> ~inner

\* A fully qualified text with valid segments and a wildcard behind the
\* first segment was rejected.
C4_Witness ==
    /\ op = "FullyQualifiedDomainName::try_from"
    /\ RightlyQualified(input)
    /\ AllPiecesValid(PiecesOf(input))
    /\ ret.err = <<"NonLeadingWildcard">>

\* C6 as stated: PartiallyQualifiedDomainName construction accepts a text
\* whose last segment is '@' (the other segments valid, no wildcard behind
\* the first), and fails with OriginInNonTerminalSegment when a segment
\* other than the last is '@'.
C6_Original ==
    (op = "PartiallyQualifiedDomainName::try_from" /\ ~ends_with_char(input, "."))
        => LET pieces == split(input, ".")
               n      == Len(pieces)
           IN  /\ (/\ pieces[n] = <<"@">>
                   /\ AllPiecesValid(SubSeq(pieces, 1, n - 1))
                   /\ \A i \in 2..n : pieces[i] # <<"*">>) => ret.ok
               /\ (/\ AllPiecesValid(SelectSeq(pieces, LAMBDA p : p # <<"@">>))
                   /\ \E i \in 1..(n - 1) : pieces[i] = <<"@">>)
                      => ret.err = <<"OriginInNonTerminalSegment">>

\* C7: DomainName::from(text) gives the Full variant if and only if the text
\* ends with '.', and the Partial variant otherwise; and whenever
\* DomainName::try_from(text) gives a DomainName, it is of that same variant.
C7_VariantByTrailingDot ==
    LET dotted == Len(input) > 0 /\ input[Len(input)] = "."
    IN  /\ op = "DomainName::from"
            => /\ ret.ok
               /\ ret.val.kind = IF dotted THEN "Full" ELSE "Partial"
        /\ (op = "DomainName::try_from" /\ ret.ok)
            => ret.val.kind = IF dotted THEN "Full" ELSE "Partial"

\* DomainName::from gave the Full variant for a text of several segments.
C7_Witness ==
    /\ op = "DomainName::from"
    /\ FullyQualifiedDomainName_try_from(input).ok
    /\ Len(FullyQualifiedDomainName_try_from(input).val) >= 2
    /\ ret.val.kind = "Full"

\* C8 as stated: DomainName construction from text ends in a DomainName or
\* in a typed error for every text, never in a panic.
C8_Original ==
    op = "DomainName::try_from" => ~ret.panic

---------------------------------------------------------------------------
(* Claims about the name algebra, checked under SpecAlgebra *)

\* C5 as stated: in every name the operations produce, a wildcard segment,
\* if there is one, is the first segment.
C5_Original ==
    /\ ~non_leading_wildcard(x.segs)
    /\ ~non_leading_wildcard(y.segs)

\* C9: x.is_subdomain_of(p) is true if and only if p's segment sequence is
\* what is left of x's after dropping one or more leading segments, that is
\* x ends with p segment by segment and x # p; so it is false for x = p.
C9_ProperSuffixOfSegments ==
    op = "FullyQualifiedDomainName::is_subdomain_of" =>
        /\ ret.val <=> \E k \in 1..Len(x.segs) :
                           SubSeq(x.segs, k + 1, Len(x.segs)) = y.segs
        /\ x = y => ret.val = FALSE

\* The text of x ends with the text of p, character by character.
TextEndsWith(text, suffix) ==
    /\ Len(suffix) <= Len(text)
    /\ SubSeq(text, Len(text) - Len(suffix) + 1, Len(text)) = suffix

\* x's text ends with p's text although x's segments do not end with p's,
\* and is_subdomain_of answered no.
C9_Witness ==
    /\ op = "FullyQualifiedDomainName::is_subdomain_of"
    /\ y.segs # <<>>
    /\ TextEndsWith(FullyQualifiedDomainName_fmt(x.segs),
                    FullyQualifiedDomainName_fmt(y.segs))
    /\ ret.val = FALSE
    /\ x # y

\* C10 as stated: len() of a name is the number of characters of its
\* rendered text.
C10_Original ==
    op = "DomainName::len" => ret.val = Len(DomainName_fmt(x))


\* C11: a - b is Ok with exactly the leading segments of a that are left
\* once b's are taken from its end when b's segments are a suffix of a's,
\* and otherwise Err carrying a itself, with nothing of a removed.
C11_DifferenceOrOperand ==
    op = "FullyQualifiedDomainName::sub" =>
        LET a == input[1].segs
            b == input[2].segs
            n == Len(a) - Len(b)
        IN  IF n >= 0 /\ SubSeq(a, n + 1, Len(a)) = b
                THEN ret = Ok(Partial(SubSeq(a, 1, n))) /\ x = Partial(SubSeq(a, 1, n))
                ELSE ret = Err(input[1]) /\ x = input[1]

\* a and b end alike but b is no suffix of a: the walk took a segment off
\* before it failed, and the error still carries all of a.
C11_Witness ==
    /\ op = "FullyQualifiedDomainName::sub"
    /\ ~ret.ok
    /\ Len(input[1].segs) = 2 /\ Len(input[2].segs) = 2
    /\ input[1].segs[2] = input[2].segs[2]
    /\ input[1].segs[1] # input[2].segs[1]
    /\ ret.err = input[1]


\* C12: subtraction undoes concatenation: when S + P has been formed from
\* the partially qualified S and the fully qualified P and P is then
\* subtracted from it, the subtraction is Ok and gives back S.
C12_SubUndoesAdd ==
    (/\ op = "FullyQualifiedDomainName::sub"
     /\ prev.op = "PartiallyQualifiedDomainName::add_fqdn")
    => /\ input = <<Full(prev.input[1].segs \o prev.input[2].segs), prev.input[2]>>
       /\ ret = Ok(prev.input[1])
       /\ x = prev.input[1]

\* A non-empty S and a non-empty P were concatenated and P subtracted.
C12_Witness ==
    /\ op = "FullyQualifiedDomainName::sub"
    /\ prev.op = "PartiallyQualifiedDomainName::add_fqdn"
    /\ prev.input[1].segs # <<>> /\ prev.input[2].segs # <<>>
    /\ ret = Ok(prev.input[1])


\* C13: every text Segment construction accepts is accepted by
\* PatternSegment construction too, with the same lower-cased content.
C13_Original ==
    (op = "PatternSegment::try_from" /\ DomainSegment_try_from(input).ok)
    => ret = Ok(DomainSegment_try_from(input).val)

\* Parsing the rendered text of the name gives the name back, as its own
\* type and as a DomainName of the same variant.
ParsesBack(name) ==
    /\ IF name.kind = "Full"
           THEN FullyQualifiedDomainName_try_from(
                    FullyQualifiedDomainName_fmt(name.segs)) = Ok(name.segs)
           ELSE PartiallyQualifiedDomainName_try_from(
                    PartiallyQualifiedDomainName_fmt(name.segs)) = Ok(name.segs)
    /\ DomainName_try_from(DomainName_fmt(name)) = Ok(name)

\* C22: every name the caller can hold, constructed from text, a default, a
\* sum or a difference, is given back by parsing its rendered text.
C22_Original == ParsesBack(x)

\* C23: s + n is of the variant of n and its segments are s followed by
\* the segments of n in their order.
C23_SegmentPrepended ==
    op = "DomainSegment::add" =>
        LET segment == input[1]
            n       == input[2]
        IN  /\ ret.ok
            /\ ret.val.kind = n.kind
            /\ Len(ret.val.segs) = Len(n.segs) + 1
            /\ ret.val.segs[1] = segment
            /\ \A i \in 1..Len(n.segs) : ret.val.segs[i + 1] = n.segs[i]
            /\ x = ret.val

\* A segment was put before a fully qualified name of two different
\* segments, neither of them the one added.
C23_Witness ==
    /\ op = "DomainSegment::add"
    /\ input[2].kind = "Full"
    /\ Len(input[2].segs) = 2
    /\ input[2].segs[1] # input[2].segs[2]
    /\ input[1] # input[2].segs[1] /\ input[1] # input[2].segs[2]
    /\ ret.val.kind = "Full"
    /\ ret.val.segs = <<input[1], input[2].segs[1], input[2].segs[2]>>

\* C27: a - b succeeds exactly when a = b or a is a subdomain of b, and
\* the difference has no segments exactly when a = b.
C27_SubAgreesWithSubdomain ==
    op = "FullyQualifiedDomainName::sub" =>
        LET a == input[1]
            b == input[2]
        IN  /\ ret.ok <=> (a = b \/ is_subdomain_of(a.segs, b.segs))
            /\ ret.ok => (ret.val.segs = <<>> <=> a = b)

\* a is a subdomain of a non-empty b and a - b gave what a has before b.
C27_Witness ==
    /\ op = "FullyQualifiedDomainName::sub"
    /\ input[2].segs # <<>>
    /\ is_subdomain_of(input[1].segs, input[2].segs)
    /\ ret.ok /\ ret.val.segs # <<>>

\* C28: concatenation undoes subtraction: when a - b has given Ok(r) and b
\* is then added to r, by + or by with_origin, the sum equals a.
C28_AddUndoesSub ==
    (/\ op \in {"PartiallyQualifiedDomainName::add_fqdn",
                "PartiallyQualifiedDomainName::with_origin"}
     /\ prev.op = "FullyQualifiedDomainName::sub")
    => /\ input[2] = prev.input[2]
       /\ FullyQualifiedDomainName_sub(prev.input[1].segs, prev.input[2].segs)
              = Ok(input[1].segs)
       /\ ret = Ok(prev.input[1])
       /\ x = prev.input[1]

\* A difference of two segments was taken from a and resolved against the
\* non-empty b again.
C28_Witness ==
    /\ op = "PartiallyQualifiedDomainName::with_origin"
    /\ prev.op = "FullyQualifiedDomainName::sub"
    /\ Len(input[1].segs) = 2 /\ input[1].segs[1] # input[1].segs[2]
    /\ input[2].segs # <<>>
    /\ ret = Ok(prev.input[1])

---------------------------------------------------------------------------
(* Claims about PatternSegment and Pattern construction, checked under Spec *)

\* A label of 1 to 63 characters of the pattern character set with no
\* leading or trailing hyphen and no hyphens at both positions 3 and 4.
PatternWellFormedLabel(label) ==
    /\ Len(label) >= 1 /\ Len(label) <= MaxPatternSegmentLen
    /\ \A i \in 1..Len(label) :
           to_ascii_lowercase_char(label[i]) \in Pattern_VALID_CHARACTERS
    /\ label[1] # "-" /\ label[Len(label)] # "-"
    /\ ~HyphensAt3And4(label)

Wildcards(label) == Cardinality({i \in 1..Len(label) : label[i] = "*"})

\* The origin marker is mixed with other characters.
MixedOrigin(label) == contains(label, "@") /\ Len(label) # 1

\* C14 as stated, for labels that keep the character and hyphen rules: a
\* label with exactly one '*' at any position and the standalone '@' are
\* accepted, a label with two or more '*' gives MultipleWildcards and a
\* label with '@' and another character gives NonStandaloneOrigin.
C14_Original ==
    (op = "PatternSegment::try_from" /\ PatternWellFormedLabel(input)) =>
        /\ (Wildcards(input) = 1 /\ ~contains(input, "@"))
            => ret = Ok(to_ascii_lowercase(input))
        /\ input = <<"@">> => ret = Ok(input)
        /\ Wildcards(input) >= 2 => ret = Err(<<"MultipleWildcards">>)
        /\ MixedOrigin(input) => ret = Err(<<"NonStandaloneOrigin">>)

\* C14 amended: of the labels that keep the character and hyphen rules, one
\* with exactly one '*' at any position and no '@' is accepted, and so is
\* the standalone '@'; one with two or more '*' gives MultipleWildcards,
\* with an '@' in it or not; one with at most one '*' and with '@' and
\* another character gives NonStandaloneOrigin.
C14_WildcardAndOrigin ==
    (op = "PatternSegment::try_from" /\ PatternWellFormedLabel(input)) =>
        /\ (Wildcards(input) = 1 /\ ~contains(input, "@"))
            => ret = Ok(to_ascii_lowercase(input))
        /\ input = <<"@">> => ret = Ok(input)
        /\ Wildcards(input) >= 2 => ret = Err(<<"MultipleWildcards">>)
        /\ (Wildcards(input) <= 1 /\ MixedOrigin(input))
            => ret = Err(<<"NonStandaloneOrigin">>)

\* A label with its one '*' between two letters was accepted.
C14_Witness ==
    /\ op = "PatternSegment::try_from"
    /\ Len(input) = 3 /\ input[2] = "*" /\ Wildcards(input) = 1
    /\ input[1] \in {"a", "A"} /\ input[3] \in {"a", "A"}
    /\ ret = Ok(to_ascii_lowercase(input))

\* C18: for a text without a trailing '.', parsing it and parsing it with
\* a '.' appended give the same result, an equal Pattern or the same error,
\* and the two Patterns match the same domains.
C18_TrailingDotOptional ==
    (op = "Pattern::try_from" /\ ~ends_with_char(input, "."))
    => LET dotted == Pattern_try_from(input \o <<".">>)
       IN  /\ ret = dotted
           /\ ret.ok => \A domain \in DomainPool :
                  Pattern_matches(ret.val, domain)
                      = Pattern_matches(dotted.val, domain)

\* A text of two labels, one a wildcard, with no trailing '.' was parsed to
\* the Pattern its dotted form gives.
C18_Witness ==
    /\ op = "Pattern::try_from"
    /\ ~ends_with_char(input, ".")
    /\ contains(input, ".") /\ contains(input, "*")
    /\ ret.ok /\ Len(ret.val) = 2
    /\ ret = Pattern_try_from(input \o <<".">>)

\* C20 as stated: the rendering of the name constructed from an accepted
\* text is exactly that text, for fully and for partially qualified names.
C20_Original ==
    /\ (op = "FullyQualifiedDomainName::try_from" /\ ret.ok)
           => FullyQualifiedDomainName_fmt(ret.val) = input
    /\ (op = "PartiallyQualifiedDomainName::try_from" /\ ret.ok)
           => PartiallyQualifiedDomainName_fmt(ret.val) = input

\* C20 amended: the rendering of the name constructed from an accepted text
\* is that text in lower case, for a fully qualified name with the run of
\* '.' at its end written as one '.'.
C20_TextRoundTrip ==
    /\ (op = "FullyQualifiedDomainName::try_from" /\ ret.ok)
           => FullyQualifiedDomainName_fmt(ret.val)
                  = to_ascii_lowercase(trim_end_matches(input, ".")) \o <<".">>
    /\ (op = "PartiallyQualifiedDomainName::try_from" /\ ret.ok)
           => PartiallyQualifiedDomainName_fmt(ret.val)
                  = to_ascii_lowercase(input)

\* A text of two labels with an upper-case letter was accepted as a fully
\* qualified name and rendered in lower case.
C20_Witness ==
    /\ op = "FullyQualifiedDomainName::try_from"
    /\ ret.ok /\ Len(ret.val) = 2
    /\ contains(input, "A")
    /\ FullyQualifiedDomainName_fmt(ret.val) = to_ascii_lowercase(input)

\* C21 as stated: the rendering of the Pattern constructed from an accepted
\* text, with a trailing '.' or without, is exactly that text.
C21_Original ==
    (op = "Pattern::try_from" /\ ret.ok) => Pattern_fmt(ret.val) = input

\* C21 amended: the rendering of the Pattern constructed from an accepted
\* text is that text in lower case, without the '.' at its end if it has
\* any, and with one '.' appended.
C21_PatternTextRoundTrip ==
    (op = "Pattern::try_from" /\ ret.ok)
    => Pattern_fmt(ret.val)
           = to_ascii_lowercase(trim_end_matches(input, ".")) \o <<".">>

\* A text of two labels without a trailing '.' was accepted as a Pattern,
\* which renders with one.
C21_Witness ==
    /\ op = "Pattern::try_from"
    /\ ret.ok /\ Len(ret.val) = 2
    /\ ~ends_with_char(input, ".")
    /\ Pattern_fmt(ret.val) = to_ascii_lowercase(input) \o <<".">>

---------------------------------------------------------------------------
(* Claims about matching, checked under SpecPattern *)

\* The segment begins with the characters the pattern has before position k
\* and ends with those the pattern has after it; the two may overlap.
AroundWildcardAt(p, s, k) ==
    /\ Len(s) >= k - 1
    /\ \A m \in 1..(k - 1) : s[m] = p[m]
    /\ Len(s) >= Len(p) - k
    /\ \A m \in 1..(Len(p) - k) : s[Len(s) - m + 1] = p[Len(p) - m + 1]

FirstWildcardAt(p, k) == p[k] = "*" /\ \A m \in 1..(k - 1) : p[m] # "*"

\* C15: a pattern segment matches a segment exactly when the two texts are
\* equal, or the pattern has a '*' and the segment starts with what is before
\* the first '*' and ends with what is after it, overlapping or not; so a
\* pattern without '*' matches only the identical segment.
C15_SegmentMatch ==
    op = "PatternSegment::matches" =>
        LET p == input[1]
            s == input[2]
        IN  ret.val <=>
                \/ p = s
                \/ \E k \in 1..Len(p) :
                       FirstWildcardAt(p, k) /\ AroundWildcardAt(p, s, k)

\* 'a*a' matched 'a': head and tail overlap in the segment.
C15_Witness ==
    /\ op = "PatternSegment::matches"
    /\ input = <<<<"a", "*", "a">>, <<"a">>>>
    /\ ret = Ok(TRUE)

\* A pattern segment with no wildcard in it that is not the origin marker.
Literal(segment) == ~contains(segment, "*") /\ segment # <<"@">>

\* C16: a pattern '*.L' with L one or more literal labels matches the domain
\* D exactly when D has strictly more segments than L and ends with L.
C16_WildcardOverLiterals ==
    (/\ op = "Pattern::matches"
     /\ Len(input[1]) >= 2
     /\ input[1][1] = <<"*">>
     /\ \A i \in 2..Len(input[1]) : Literal(input[1][i]))
    => LET L == Tail(input[1])
           D == input[2].segs
       IN  ret.val <=>
               /\ Len(D) > Len(L)
               /\ \A i \in 1..Len(L) : D[Len(D) - Len(L) + i] = L[i]

\* '*.L' matched a domain with two segments before L.
C16_Witness ==
    /\ op = "Pattern::matches"
    /\ Len(input[1]) >= 2
    /\ input[1][1] = <<"*">>
    /\ \A i \in 2..Len(input[1]) : Literal(input[1][i])
    /\ Len(input[2].segs) = Len(input[1]) + 1
    /\ ret = Ok(TRUE)

\* C17: a pattern never matches a domain with fewer segments than it has,
\* and matches a domain with more segments only if its first segment is the
\* standalone '*'.
C17_LengthRules ==
    op = "Pattern::matches" =>
        LET p == input[1]
            D == input[2].segs
        IN  /\ Len(D) < Len(p) => ret = Ok(FALSE)
            /\ (Len(D) > Len(p) /\ ~(p # <<>> /\ p[1] = <<"*">>))
                   => ret = Ok(FALSE)

\* A longer domain was refused by a pattern that ends in the standalone
\* '*' but does not begin with it.
C17_Witness ==
    /\ op = "Pattern::matches"
    /\ Len(input[2].segs) > Len(input[1])
    /\ input[1][1] # <<"*">>
    /\ input[1][Len(input[1])] = <<"*">>
    /\ ret = Ok(FALSE)

\* C19: with_origin of a pattern whose last segment is the standalone '@'
\* gives the pattern's other segments followed by the segments of the
\* origin in order, with no origin marker in it, and of any other pattern
\* the pattern itself; 'L.@' resolved with the origin F matches the domain
\* 'L.F', which the unresolved pattern does not.
C19_Original ==
    /\ op = "Pattern::with_origin" =>
           LET p == input[1]
               F == input[2]
           IN  IF p # <<>> /\ p[Len(p)] = <<"@">>
                   THEN /\ ret = Ok(SubSeq(p, 1, Len(p) - 1) \o F)
                        /\ \A i \in 1..Len(ret.val) : ret.val[i] # <<"@">>
                   ELSE ret = Ok(p)
    /\ (/\ op = "Pattern::matches"
        /\ prev.op = "Pattern::with_origin"
        /\ Len(prev.input[1]) = 2
        /\ Literal(prev.input[1][1])
        /\ prev.input[1][2] = <<"@">>
        /\ x.segs = <<prev.input[1][1]>> \o prev.input[2])
       => (ret = Ok(TRUE) /\ ~Pattern_matches(prev.input[1], x))

\* The lengths let the pattern and the domain through to the walk: the
\* domain is not shorter, and not longer unless the pattern begins with the
\* standalone '*'.
ReachesWalk(p, D) ==
    /\ Len(D) >= Len(p)
    /\ Len(D) > Len(p) => (p # <<>> /\ p[1] = <<"*">>)

\* The k-th pair from the least-specific end, k = 0 for the last segments.
PairMatches(p, D, k) ==
    PatternSegment_matches(p[Len(p) - k], D[Len(D) - k])

\* C25: once the lengths let the walk begin, the pairs are taken from the
\* least-specific end; the result is true exactly when every pair before
\* the first standalone '*' of the pattern, or every pair if it has none,
\* satisfies PatternSegment::matches: the pairs from that '*' on, the more
\* specific ones, are not compared.
C25_WalkFromTheEnd ==
    (op = "Pattern::matches" /\ ReachesWalk(input[1], input[2].segs))
    => LET p == input[1]
           D == input[2].segs
       IN  ret.val <=>
               \E stop \in 0..Len(p) :
                   /\ stop = Len(p) \/ p[Len(p) - stop] = <<"*">>
                   /\ \A k \in 0..(stop - 1) :
                          /\ p[Len(p) - k] # <<"*">>
                          /\ PairMatches(p, D, k)

\* The pattern ends in the standalone '*' and matched a domain of its own
\* length whose first segment its first segment does not match.
C25_Witness ==
    /\ op = "Pattern::matches"
    /\ Len(input[1]) = 2 /\ Len(input[2].segs) = 2
    /\ input[1][2] = <<"*">>
    /\ ~PatternSegment_matches(input[1][1], input[2].segs[1])
    /\ ret = Ok(TRUE)

\* C26: a pattern matches a domain with the same number of segments only if
\* every pattern segment matches the domain segment at its position, the
\* segments more specific than a standalone '*' too.
C26_Original ==
    (/\ op = "Pattern::matches"
     /\ Len(input[1]) = Len(input[2].segs)
     /\ ret.val)
    => \A i \in 1..Len(input[1]) :
           PatternSegment_matches(input[1][i], input[2].segs[i])

\* C29: for a pattern and an origin built from text (no text gives an
\* origin without segments), every segment of p.with_origin(f) is a text
\* PatternSegment construction accepts as it is, and parsing the rendering
\* of p.with_origin(f) gives an equal Pattern.
C29_Original ==
    (op = "Pattern::with_origin" /\ input[2] # <<>>)
    => /\ \A i \in 1..Len(ret.val) :
              PatternSegment_try_from(PatternSegment_fmt(ret.val[i]))
                  = Ok(ret.val[i])
       /\ Pattern_try_from(Pattern_fmt(ret.val)) = Ok(ret.val)

\* The name of the other variant with the same segments.
OtherVariant(name) ==
    IF name.kind = "Full" THEN Partial(name.segs) ELSE Full(name.segs)

\* C30: matching ignores the qualification of the domain: the answer for a
\* name is the answer for the name of the other variant with the same
\* segments.
C30_QualificationIgnored ==
    op = "Pattern::matches" =>
        ret.val = Pattern_matches(input[1], OtherVariant(input[2]))

\* A partially qualified name of two segments was matched.
C30_Witness ==
    /\ op = "Pattern::matches"
    /\ input[2].kind = "Partial"
    /\ Len(input[2].segs) = 2
    /\ ret = Ok(TRUE)
    /\ Pattern_matches(input[1], Full(input[2].segs))

====
